---- MODULE Spec2Model ----
(***************************************************************************)
(* The embedding index store of evo-ssearch: the persisted index of one    *)
(* folder (index.faiss, paths.pkl, metadata.pkl under .clip_index), the    *)
(* builds that write it and the searches that load it.                     *)
(*                                                                         *)
(* The repository holds the service in several variants that share the     *)
(* persisted layout.  `variant` says which one is running:                 *)
(*   "app"     src/app.py      incremental build in a background thread    *)
(*   "old_app" src/old_app.py  the same, with an early return and the      *)
(*                             catalog read before the vector store        *)
(*   "oldapp"  src/oldapp.py   full rebuild inside the request, with a     *)
(*                             metadata file                               *)
(***************************************************************************)
EXTENDS Integers, Sequences, FiniteSets, TLC

\* ------------------------------------------------------------------ bounds
\* Number of distinct image paths the folder may hold.
NumPaths == 2
\* Number of build requests one behaviour may issue.
MaxBuilds == 2
\* Largest integer a request may give as its limit.
MaxLimit == 50
\* Largest number of indexed images of the limit computation.
MaxImages == 14
\* Number of comments one behaviour may append.
MaxComments == 2
\* Last second of the wall clock.
MaxClock == 1

Paths == 1..NumPaths
Variants == {"app", "old_app", "oldapp"}
Incremental == {"app", "old_app"}
\* Request threads that may run a build at the same time.
Builders == {"t1", "t2"}

\* --------------------------------------------------------------- constants
\* app.py search: k = min(10, len(paths))
TOP_K == 10
\* oldapp.py search: limit = request.json.get('limit', 10)
REQUEST_LIMIT_DEFAULT == 10
\* oldapp.py search_by_image: limit = request.form.get('limit', 12)
IMAGE_LIMIT_DEFAULT == 12
MIN_RESULTS == 3
MAX_RESULTS == 48
DEFAULT_RESULTS == 12
\* config.py: MAX_COMMENT_LENGTH = 100
MAX_COMMENT_LENGTH == 100

\* ------------------------------------------------------- embedding provider
\* The provider returns unit vectors; here they are 2-dimensional and scaled
\* by 5, so every vector has squared norm 25 and the inner product of a
\* vector with itself (25) exceeds its inner product with any other one.
\* Distinct paths hold distinct images.
Emb(p) ==
  CASE p = 1 -> <<5, 0>>
    [] p = 2 -> <<4, 3>>
    [] p = 3 -> <<3, 4>>
    [] p = 4 -> <<0, 5>>
    [] OTHER -> <<-3, 4>>

Dot(u, v) == u[1] * v[1] + u[2] * v[2]

\* stat(): the modification time of a file (newer files have larger paths).
MTimeOf(p) == 100 + p

MetaOf(p) == [path |-> p, mtime |-> MTimeOf(p)]

\* ------------------------------------------------------------ sequences
RECURSIVE SeqMap(_, _)
SeqMap(Op(_), s) == IF s = <<>> THEN <<>> ELSE <<Op(Head(s))>> \o SeqMap(Op, Tail(s))

Range(s) == {s[i] : i \in 1..Len(s)}

NoDup(s) == \A i, j \in 1..Len(s) : i # j => s[i] # s[j]

IsPrefix(s, t) == Len(s) <= Len(t) /\ \A i \in 1..Len(s) : s[i] = t[i]

Min(a, b) == IF a <= b THEN a ELSE b

\* ------------------------------------------------------------------ files
NoFile == [exists |-> FALSE, data |-> <<>>]
FileOf(s) == [exists |-> TRUE, data |-> s]

\* -------------------------------------------------------- request limits
\* The limit of a request: left out, an integer (a JSON number or a text of
\* digits), a text that is no number, or null.
NoLimit == [kind |-> "absent", val |-> 0]
LimitInputs ==
  {NoLimit, [kind |-> "text", val |-> 0], [kind |-> "null", val |-> 0]}
    \cup {[kind |-> "int", val |-> v] : v \in -1..MaxLimit}

VARIABLES
  variant,     \* which variant of the service runs
  files,       \* the folder: path -> "absent" | "ok" | "corrupt"
  faissFile,   \* .clip_index/index.faiss
  pathsFile,   \* .clip_index/paths.pkl
  metaFile,    \* .clip_index/metadata.pkl (oldapp only)
  pc,          \* builder -> position in the build
  idx,         \* builder -> the in-memory vector store (a file record; none = None)
  prev,        \* builder -> the in-memory catalog
  meta,        \* builder -> the in-memory metadata list (oldapp only)
  resp,        \* builder -> outcome of its last build
  builds,      \* number of build requests so far
  embedded,    \* builder -> the files it passed to the embedding provider
  snapDisk,    \* builder -> the persisted index when its request started
  dirty,       \* builder -> the folder changed under its scan
  folderSame,   \* the last build completed and the folder is as its scan saw it
  lastFailed,  \* the last build failed while persisting
  rescan,      \* builder -> its scan saw the folder the last completed build saw
  isRetry,     \* builder -> the build before it failed while persisting
  asked,       \* builder -> what its request named as the folder
  spc,         \* position of the search request
  query,       \* the query vector of the search request
  sortBy,      \* its sort_by parameter (oldapp)
  sIdx,        \* the vector store the search loaded (a file record)
  sPaths,      \* the catalog the search loaded
  sMeta,       \* the metadata the search loaded (a file record; none = None)
  sResp,       \* outcome of the last search
  sIds,        \* the positions the vector store returned
  sResult,     \* the result list of the last search
  reqLimit,    \* the limit as the request gives it (oldapp)
  route,       \* "search" | "search_by_image" (oldapp)
  nIndexed,    \* len(image_paths) of the limit computation
  effLimit,    \* the limit after validation; -1 before
  kOut,        \* k = min(limit, len(image_paths)); -1 before
  stale,       \* index.faiss holds vectors of another dimension than the model's
  log,         \* .clip_index/comments.json (oldapp)
  clock,       \* the wall clock, in seconds
  npc,         \* commenter -> position of its POST /comments request
  nPath,       \* commenter -> the image_path of its request
  nText,       \* commenter -> the comment of its request, stripped
  nData,       \* commenter -> the comments_data it loaded
  nResp,       \* commenter -> outcome of its request
  nOut,        \* commenter -> the comments its answer carries
  history,     \* the comments appended with success, oldest first
  lres         \* the answer of the last GET /comments or POST /commented_images

diskVars == <<faissFile, pathsFile, metaFile>>
buildVars == <<pc, idx, prev, meta, resp, builds, embedded, snapDisk, dirty,
               folderSame, lastFailed, rescan, isRetry, asked>>
limitVars == <<reqLimit, route, nIndexed, effLimit, kOut>>
noteVars == <<log, clock, npc, nPath, nText, nData, nResp, nOut, history, lres>>
searchVars == <<spc, query, sortBy, sIdx, sPaths, sMeta, sResp, sIds, sResult>>
vars == <<variant, files, faissFile, pathsFile, metaFile, pc, idx, prev, meta,
          resp, builds, embedded, snapDisk, dirty, folderSame, lastFailed,
          rescan, isRetry, spc, query, sortBy, sIdx, sPaths, sMeta, sResp, sIds, sResult,
          reqLimit, route, nIndexed, effLimit, kOut, asked, stale,
          log, clock, npc, nPath, nText, nData, nResp, nOut, history, lres>>

\* --------------------------------------------------------- the comments
\* Those who post comments at the same time.
Commenters == {"c1", "c2"}

\* A comment as a request gives it: `body` characters other than white space
\* (a run of one letter) with `pad` characters of white space around them.
Bodies == {0, 1, MAX_COMMENT_LENGTH, MAX_COMMENT_LENGTH + 1}
Texts == [body : Bodies, pad : 0..1]

\* str.strip() and len()
strip(t) == [t EXCEPT !.pad = 0]
len(t) == t.body + t.pad

\* f"[{timestamp}] {comment}"
Stamped(ts, t) == [ts |-> ts, text |-> t.body]

\* comments.json: missing, a JSON object (path -> list of strings, in the
\* order the paths were added), a text that is not JSON ("garbled"), or JSON
\* that is not an object ("other").
NoLog == [kind |-> "missing", data |-> <<>>]
NoText == [body |-> 0, pad |-> 0]
NoView == [op |-> "none", path |-> 0, resp |-> "none", out |-> <<>>]

Disk == [faiss |-> faissFile, paths |-> pathsFile, meta |-> metaFile]
NoDisk == [faiss |-> NoFile, paths |-> NoFile, meta |-> NoFile]


\* --------------------------------------------------------------- the scan
\* _imgs / glob: the supported image files of the folder, in directory order
\* (here: ascending path).  A corrupt image is listed like any other.
RECURSIVE ScanFrom(_, _)
ScanFrom(f, p) ==
  IF p > NumPaths THEN <<>>
  ELSE (IF f[p] # "absent" THEN <<p>> ELSE <<>>) \o ScanFrom(f, p + 1)

_imgs(f) == ScanFrom(f, 1)

RECURSIVE Select(_, _)
Select(s, keep) ==
  IF s = <<>> THEN <<>>
  ELSE (IF Head(s) \in keep THEN <<Head(s)>> ELSE <<>>) \o Select(Tail(s), keep)

\* A diff that forgets the catalog: every scanned file counts as new.
NewPaths_NoFilter(f, catalog) == _imgs(f)

\* A diff that stops at the first new file.
NewPaths_FirstOnly(f, catalog) ==
  LET new == Select(_imgs(f), Paths \ Range(catalog))
  IN  IF new = <<>> THEN <<>> ELSE <<Head(new)>>

\* app.py:55  new = [str(p) for p in _imgs(folder) if str(p) not in prev]
NewPaths(f, catalog) == Select(_imgs(f), Paths \ Range(catalog))

Init ==
  /\ variant \in Variants
  /\ files \in [Paths -> {"absent", "ok", "corrupt"}]
  /\ faissFile = NoFile
  /\ pathsFile = NoFile
  /\ metaFile = NoFile
  /\ pc = [b \in Builders |-> "idle"]
  /\ idx = [b \in Builders |-> NoFile]
  /\ prev = [b \in Builders |-> <<>>]
  /\ meta = [b \in Builders |-> <<>>]
  /\ resp = [b \in Builders |-> "none"]
  /\ builds = 0
  /\ embedded = [b \in Builders |-> <<>>]
  /\ snapDisk = [b \in Builders |-> NoDisk]
  /\ dirty = [b \in Builders |-> FALSE]
  /\ folderSame = FALSE
  /\ lastFailed = FALSE
  /\ rescan = [b \in Builders |-> FALSE]
  /\ isRetry = [b \in Builders |-> FALSE]
  /\ asked = [b \in Builders |-> "dir"]
  /\ spc = "idle"
  /\ query = Emb(1)
  /\ sortBy = "similarity"
  /\ sIdx = NoFile
  /\ sPaths = <<>>
  /\ sMeta = NoFile
  /\ sResp = "none"
  /\ sIds = <<>>
  /\ sResult = <<>>
  /\ reqLimit = NoLimit
  /\ route = "search"
  /\ nIndexed = 0
  /\ effLimit = -1
  /\ kOut = -1
  /\ stale = FALSE
  /\ log = NoLog
  /\ clock = 0
  /\ npc = [c \in Commenters |-> "idle"]
  /\ nPath = [c \in Commenters |-> 0]
  /\ nText = [c \in Commenters |-> NoText]
  /\ nData = [c \in Commenters |-> NoLog]
  /\ nResp = [c \in Commenters |-> "none"]
  /\ nOut = [c \in Commenters |-> <<>>]
  /\ history = <<>>
  /\ lres = NoView

\* ------------------------------------------------------------ the folder
\* The user adds an image to the folder, or replaces one.
AddFile(p, kind) ==
  /\ files[p] # kind
  /\ files' = [files EXCEPT ![p] = kind]
  /\ folderSame' = FALSE
  /\ UNCHANGED <<variant, limitVars, stale, noteVars, diskVars, pc, idx, prev, meta, resp, builds, embedded,
                 snapDisk, dirty, lastFailed, rescan, isRetry, asked, searchVars>>

\* The user removes an image from the folder.
RemoveFile(p) ==
  /\ files[p] # "absent"
  /\ files' = [files EXCEPT ![p] = "absent"]
  /\ folderSame' = FALSE
  /\ UNCHANGED <<variant, limitVars, stale, noteVars, diskVars, pc, idx, prev, meta, resp, builds, embedded,
                 snapDisk, dirty, lastFailed, rescan, isRetry, asked, searchVars>>

\* ------------------------------------------------------------- the build
\* The build ends; `how` is its outcome.
EndBuild(b, how) ==
  /\ pc' = [pc EXCEPT ![b] = "end"]
  /\ resp' = [resp EXCEPT ![b] = how]

\* What a request may name as its folder.
Targets == {"dir", "missing", "file"}

\* The check of the request's folder.  app.py _safe and old_app.py _safe_path
\* want a directory (`not q.is_dir()`); oldapp.py wants the path to exist
\* (`not os.path.exists(folder)`), so it goes on with a regular file, whose
\* glob yields nothing: create_index returns None and the answer is "No
\* images found in folder".
FolderOutcome(target) ==
  CASE target = "dir" -> "ok"
    [] target = "missing" -> "invalid_folder"
    [] OTHER -> IF variant = "oldapp" THEN "no_images" ELSE "invalid_folder"

\* POST /index: the request is accepted and the build begins; no variant
\* looks at whether a build of the folder is already running.
index_folder(b, target) ==
  /\ pc[b] = "idle"
  /\ builds < MaxBuilds
  /\ builds' = builds + 1
  /\ asked' = [asked EXCEPT ![b] = target]
  /\ snapDisk' = [snapDisk EXCEPT ![b] = Disk]
  /\ isRetry' = [isRetry EXCEPT ![b] = lastFailed]
  /\ IF FolderOutcome(target) = "ok"
     THEN /\ pc' = [pc EXCEPT ![b] = CASE variant = "app" -> "read_idx"
                                       [] variant = "old_app" -> "read_prev"
                                       [] OTHER -> "create"]
          /\ resp' = [resp EXCEPT ![b] = "started"]
     ELSE EndBuild(b, FolderOutcome(target))
  /\ UNCHANGED <<variant, limitVars, stale, noteVars, files, diskVars, idx, prev, meta, embedded, dirty,
                 folderSame, lastFailed, rescan, searchVars>>

\* idx = faiss.read_index(...) if (d/'index.faiss').exists() else None
ReadIdx(b) ==
  /\ pc[b] = "read_idx"
  /\ idx' = [idx EXCEPT ![b] = faissFile]
  /\ pc' = [pc EXCEPT ![b] = IF variant = "app" THEN "read_prev" ELSE "scan"]
  /\ UNCHANGED <<variant, limitVars, stale, noteVars, files, diskVars, prev, meta, resp, builds, embedded,
                 snapDisk, dirty, folderSame, lastFailed, rescan, isRetry, asked,
                 searchVars>>

\* prev = _load_paths(d): the catalog, or [] when paths.pkl is missing
_load_paths == IF pathsFile.exists THEN pathsFile.data ELSE <<>>

ReadPrev(b) ==
  /\ pc[b] = "read_prev"
  /\ prev' = [prev EXCEPT ![b] = _load_paths]
  /\ pc' = [pc EXCEPT ![b] = IF variant = "app" THEN "scan" ELSE "read_idx"]
  /\ UNCHANGED <<variant, limitVars, stale, noteVars, files, diskVars, idx, meta, resp, builds, embedded,
                 snapDisk, dirty, folderSame, lastFailed, rescan, isRetry, asked,
                 searchVars>>

\* A catalog that puts the new paths in front of the old ones.
extend_InFront(catalog, new) == new \o catalog

\* idx.add(arr): the vectors go after the ones the store holds
add(vectors, arr) == vectors \o arr

\* prev.extend(new): the paths go after the ones the catalog holds
extend(catalog, new) == catalog \o new

\* A store that takes vectors of any dimension.
SameDim_Unchecked(isStale) == TRUE

\* faiss, in add and in search: assert d == self.d.  The vectors of the call
\* have the dimension of the loaded model, those of a stale store do not.
SameDim(isStale) == ~isStale

\* create_or_update_index, from the scan to the updated in-memory index.
\* Image.open raises on a file the provider cannot decode: nothing catches it,
\* the thread ends and nothing is written.  idx.add raises on a store of
\* another dimension, with the same end.
ScanEmbed(b) ==
  /\ pc[b] = "scan"
  /\ LET new == NewPaths(files, prev[b])
         arr == SeqMap(Emb, new)
     IN  /\ rescan' = [rescan EXCEPT ![b] = folderSame]
         /\ embedded' = [embedded EXCEPT ![b] = new]
         /\ IF \E i \in 1..Len(new) : files[new[i]] = "corrupt"
            THEN /\ EndBuild(b, "crashed")
                 /\ UNCHANGED <<idx, prev>>
            ELSE IF variant = "old_app" /\ new = <<>> /\ idx[b].exists
            THEN /\ EndBuild(b, "done")
                 /\ UNCHANGED <<idx, prev>>
            ELSE IF arr # <<>> /\ idx[b].exists /\ ~SameDim(stale)
            THEN /\ EndBuild(b, "crashed")
                 /\ UNCHANGED <<idx, prev>>
            ELSE /\ idx' = [idx EXCEPT ![b] = FileOf(add(idx[b].data, arr))]
                 /\ prev' = [prev EXCEPT ![b] = IF arr # <<>> THEN extend(prev[b], new) ELSE prev[b]]
                 /\ pc' = [pc EXCEPT ![b] = "write_faiss"]
                 /\ UNCHANGED resp
  /\ UNCHANGED <<variant, limitVars, stale, noteVars, files, diskVars, meta, builds, snapDisk, dirty, folderSame,
                 lastFailed, isRetry, asked, searchVars>>

\* faiss.write_index(idx, str(d/'index.faiss')).  app.py and old_app.py write
\* the store they read, with its dimension; oldapp.py writes a store made
\* from the embeddings of this build.
WriteFaiss(b) ==
  /\ pc[b] = "write_faiss"
  /\ faissFile' = idx[b]
  /\ pc' = [pc EXCEPT ![b] = "write_paths"]
  /\ stale' = (variant # "oldapp" /\ stale)
  /\ UNCHANGED <<variant, limitVars, noteVars, files, pathsFile, metaFile, idx, prev, meta, resp, builds,
                 embedded, snapDisk, dirty, folderSame, lastFailed, rescan, isRetry, asked,
                 searchVars>>

\* pickle.dump(prev, open(d/'paths.pkl','wb'))
WritePaths(b) ==
  /\ pc[b] = "write_paths"
  /\ pathsFile' = FileOf(prev[b])
  /\ IF variant = "oldapp"
     THEN /\ pc' = [pc EXCEPT ![b] = "write_meta"]
          /\ UNCHANGED resp
     ELSE EndBuild(b, "done")
  /\ UNCHANGED <<variant, limitVars, stale, noteVars, files, faissFile, metaFile, idx, prev, meta, builds,
                 embedded, snapDisk, dirty, folderSame, lastFailed, rescan,
                 isRetry, asked, searchVars>>

\* A write of the persisted index raises (disk full, permission, the process is
\* stopped): the build ends there and the files written before it stay.
FailWrite(b) ==
  /\ pc[b] \in {"write_faiss", "write_paths", "write_meta"}
  /\ EndBuild(b, "failed")
  /\ UNCHANGED <<variant, limitVars, stale, noteVars, files, diskVars, idx, prev, meta, builds, embedded,
                 snapDisk, dirty, folderSame, lastFailed, rescan, isRetry, asked,
                 searchVars>>

\* oldapp.py create_index: every supported file of the folder is embedded
\* again.  A file the provider cannot decode is skipped whole.  A file that
\* goes away between its embedding and its stat() (the set `gone`, an input
\* from the folder's user) has its vector and its path appended already when
\* stat() raises, and gets no metadata entry.
CreateIndex(b, gone) ==
  /\ pc[b] = "create"
  /\ gone \subseteq {q \in Paths : files[q] = "ok"}
  /\   LET scan == _imgs(files)
           image_paths == Select(scan, {p \in Paths : files[p] = "ok"})
           embeddings == SeqMap(Emb, image_paths)
           image_metadata == SeqMap(MetaOf, Select(image_paths, Paths \ gone))
       IN  /\ files' = [p \in Paths |-> IF p \in gone THEN "absent" ELSE files[p]]
           /\ dirty' = [dirty EXCEPT ![b] = (gone # {})]
           /\ rescan' = [rescan EXCEPT ![b] = folderSame /\ gone = {}]
           /\ embedded' = [embedded EXCEPT ![b] = scan]
           /\ IF embeddings = <<>>
              THEN /\ EndBuild(b, "no_images")
                   /\ UNCHANGED <<idx, prev, meta>>
              ELSE /\ idx' = [idx EXCEPT ![b] = FileOf(embeddings)]
                   /\ prev' = [prev EXCEPT ![b] = image_paths]
                   /\ meta' = [meta EXCEPT ![b] = image_metadata]
                   /\ pc' = [pc EXCEPT ![b] = "write_faiss"]
                   /\ UNCHANGED resp
  /\ UNCHANGED <<variant, limitVars, stale, noteVars, diskVars, builds, snapDisk, folderSame, lastFailed,
                 isRetry, asked, searchVars>>

\* oldapp.py save_index: pickle.dump(image_metadata, ...), the last write
WriteMeta(b) ==
  /\ pc[b] = "write_meta"
  /\ metaFile' = FileOf(meta[b])
  /\ EndBuild(b, "done")
  /\ UNCHANGED <<variant, limitVars, stale, noteVars, files, faissFile, pathsFile, idx, prev, meta, builds,
                 embedded, snapDisk, dirty, folderSame, lastFailed, rescan,
                 isRetry, asked, searchVars>>

\* The build's thread (app, old_app) or request (oldapp) is over: its locals
\* are gone.
Return(b) ==
  /\ pc[b] = "end"
  /\ pc' = [pc EXCEPT ![b] = "idle"]
  /\ folderSame' = (resp[b] = "done" /\ ~dirty[b])
  /\ lastFailed' = (resp[b] = "failed")
  /\ idx' = [idx EXCEPT ![b] = NoFile]
  /\ prev' = [prev EXCEPT ![b] = <<>>]
  /\ meta' = [meta EXCEPT ![b] = <<>>]
  /\ resp' = [resp EXCEPT ![b] = "none"]
  /\ embedded' = [embedded EXCEPT ![b] = <<>>]
  /\ snapDisk' = [snapDisk EXCEPT ![b] = NoDisk]
  /\ dirty' = [dirty EXCEPT ![b] = FALSE]
  /\ rescan' = [rescan EXCEPT ![b] = FALSE]
  /\ isRetry' = [isRetry EXCEPT ![b] = FALSE]
  /\ asked' = [asked EXCEPT ![b] = "dir"]
  /\ UNCHANGED <<variant, limitVars, stale, noteVars, files, diskVars, builds, searchVars>>

\* ------------------------------------------------------------ the search
\* IndexFlatIP.search(q, k): the 0-based positions of the k largest inner
\* products, best first, equal scores by lower position; -1 fills the places
\* for which the store has no vector.
RECURSIVE TopK(_, _, _, _)
TopK(vs, q, k, taken) ==
  IF k = 0 THEN <<>>
  ELSE LET cand == (1..Len(vs)) \ taken
       IN  IF cand = {} THEN <<-1>> \o TopK(vs, q, k - 1, taken)
           ELSE LET best == CHOOSE i \in cand : \A j \in cand :
                               \/ Dot(vs[i], q) > Dot(vs[j], q)
                               \/ Dot(vs[i], q) = Dot(vs[j], q) /\ i <= j
                IN  <<best - 1>> \o TopK(vs, q, k - 1, taken \cup {best})

\* A corrected limit that is pulled to the nearest end of the range.
EffectiveLimit_Clamp(limit) ==
  IF limit < MIN_RESULTS THEN MIN_RESULTS
  ELSE IF limit > MAX_RESULTS THEN MAX_RESULTS ELSE limit

\* A limit that is taken as it comes.
EffectiveLimit_NoCheck(limit) == limit

\* oldapp.py search: the limit of the request, or the default when it is out
\* of [MIN_RESULTS, MAX_RESULTS]
EffectiveLimit(limit) ==
  IF limit < MIN_RESULTS \/ limit > MAX_RESULTS THEN DEFAULT_RESULTS ELSE limit

\* request.json.get('limit', 10) / request.form.get('limit', 12)
RouteDefault(r) == IF r = "search" THEN REQUEST_LIMIT_DEFAULT ELSE IMAGE_LIMIT_DEFAULT

\* The validation of the limit: int(limit) raises on a text that is no
\* number (ValueError) and on null (TypeError), and the default is taken.
LimitOf(raw, r) ==
  CASE raw.kind = "absent" -> EffectiveLimit(RouteDefault(r))
    [] raw.kind = "int" -> EffectiveLimit(raw.val)
    [] OTHER -> DEFAULT_RESULTS

\* k of the search
SearchK(n) ==
  IF variant = "oldapp" THEN Min(LimitOf(reqLimit, route), n)
  ELSE Min(TOP_K, n)

\* paths[i] of Python: a negative i counts from the end.
PyIndex(s, i) == IF i >= 0 THEN s[i + 1] ELSE s[Len(s) + 1 + i]

\* Which positions of the vector store's answer become results.
\* app.py / old_app.py: `if i>=len(paths): continue`; oldapp.py: `idx >= 0 and
\* idx < len(image_paths)`.
Resolves(i, paths) ==
  IF variant = "oldapp" THEN i >= 0 /\ i < Len(paths)
  ELSE i < Len(paths)

\* Image.open(p) for the thumbnail succeeds on a readable image only.
Opens(p) == files[p] = "ok"

\* The result of one hit: its path, and in oldapp its mtime when the metadata
\* list reaches the position.
Hit(i, paths, md) ==
  [path |-> PyIndex(paths, i),
   mtime |-> IF variant = "oldapp" /\ md.exists /\ md.data # <<>> /\ i < Len(md.data)
             THEN md.data[i + 1].mtime ELSE 0]

RECURSIVE Hits(_, _, _)
Hits(ids, paths, md) ==
  IF ids = <<>> THEN <<>>
  ELSE (IF Resolves(Head(ids), paths)
           /\ (variant = "oldapp" => Opens(PyIndex(paths, Head(ids))))
        THEN <<Hit(Head(ids), paths, md)>> ELSE <<>>) \o Hits(Tail(ids), paths, md)

\* A sort by time that keeps only the newest result.
SortByTime_NewestOnly(rs) ==
  IF rs = <<>> THEN <<>>
  ELSE LET n == CHOOSE i \in 1..Len(rs) : \A j \in 1..Len(rs) : rs[i].mtime >= rs[j].mtime
       IN  <<rs[n]>>

\* results.sort(key=mtime, reverse=True): stable, newest first
RECURSIVE InsertByTime(_, _)
InsertByTime(r, sorted) ==
  IF sorted = <<>> THEN <<r>>
  ELSE IF Head(sorted).mtime >= r.mtime THEN <<Head(sorted)>> \o InsertByTime(r, Tail(sorted))
  ELSE <<r>> \o sorted

RECURSIVE SortByTime(_)
SortByTime(rs) ==
  IF rs = <<>> THEN <<>>
  ELSE InsertByTime(rs[Len(rs)], SortByTime(SubSeq(rs, 1, Len(rs) - 1)))

QueryVectors == {Emb(p) : p \in Paths}

\* POST /search: the request arrives with its query and sort order (only
\* oldapp.py reads sort_by).
search(q, sb) ==
  /\ spc = "idle"
  /\ variant # "oldapp" => sb = "similarity"
  /\ spc' = "read_idx"
  /\ query' = q
  /\ sortBy' = sb
  /\ UNCHANGED <<variant, limitVars, stale, noteVars, files, diskVars, buildVars, sIdx, sPaths, sMeta, sResp,
                 sIds, sResult>>

\* A load that waits until no build is running.
LoadIdx_AfterBuilds ==
  /\ spc = "read_idx"
  /\ \A b \in Builders : pc[b] = "idle"
  /\ sIdx' = faissFile
  /\ IF faissFile.exists
     THEN spc' = "read_paths" /\ UNCHANGED sResp
     ELSE spc' = "reply" /\ sResp' = "not_indexed"
  /\ UNCHANGED <<variant, limitVars, stale, noteVars, files, diskVars, buildVars, query, sortBy, sPaths,
                 sMeta, sIds, sResult>>

\* A load that does not look whether index.faiss is there.
LoadIdx_Unchecked ==
  /\ spc = "read_idx"
  /\ sIdx' = faissFile
  /\ spc' = "read_paths"
  /\ UNCHANGED <<variant, limitVars, stale, noteVars, files, diskVars, buildVars, query, sortBy, sPaths,
                 sMeta, sResp, sIds, sResult>>

\* load_index, the vector store: no index.faiss means "Folder not indexed".
LoadIdx ==
  /\ spc = "read_idx"
  /\ sIdx' = faissFile
  /\ IF faissFile.exists
     THEN spc' = "read_paths" /\ UNCHANGED sResp
     ELSE spc' = "reply" /\ sResp' = "not_indexed"
  /\ UNCHANGED <<variant, limitVars, stale, noteVars, files, diskVars, buildVars, query, sortBy, sPaths, sMeta,
                 sIds, sResult>>

\* load_index, the catalog: app.py and old_app.py read a missing paths.pkl as
\* []; in oldapp.py the open raises and load_index returns None.
LoadPaths ==
  /\ spc = "read_paths"
  /\ sPaths' = _load_paths
  /\ IF variant = "oldapp"
     THEN IF pathsFile.exists
          THEN spc' = "read_meta" /\ UNCHANGED sResp
          ELSE spc' = "reply" /\ sResp' = "not_indexed"
     ELSE spc' = "query" /\ UNCHANGED sResp
  /\ UNCHANGED <<variant, limitVars, stale, noteVars, files, diskVars, buildVars, query, sortBy, sIdx, sMeta,
                 sIds, sResult>>

\* oldapp.py load_index, the metadata: None when metadata.pkl is missing
LoadMeta ==
  /\ spc = "read_meta"
  /\ sMeta' = metaFile
  /\ spc' = "query"
  /\ UNCHANGED <<variant, limitVars, stale, noteVars, files, diskVars, buildVars, query, sortBy, sIdx, sPaths,
                 sResp, sIds, sResult>>

\* The search proper, on what load_index returned.
\* With k = 0 oldapp.py returns no results at once; app.py and old_app.py call
\* idx.search(q, 0), which returns nothing or raises, by the faiss release.
\* app.py and old_app.py open every hit's file outside any try: one that does
\* not open fails the request.
RunQuery ==
  /\ spc = "query"
  /\ spc' = "reply"
  /\ LET k == SearchK(Len(sPaths))
         ids == TopK(sIdx.data, query, k, {})
         hits == Hits(ids, sPaths, sMeta)
     IN  IF k = 0
         THEN /\ sIds' = <<>>
              /\ sResult' = <<>>
              /\ \/ sResp' = "results"
                 \/ variant # "oldapp" /\ sResp' = "error"
         ELSE IF ~SameDim(stale)
         THEN sIds' = <<>> /\ sResult' = <<>> /\ sResp' = "error"
         ELSE /\ sIds' = ids
              /\ IF variant # "oldapp"
                    /\ \E n \in 1..Len(ids) :
                         Resolves(ids[n], sPaths) /\ ~Opens(PyIndex(sPaths, ids[n]))
                 THEN sResult' = <<>> /\ sResp' = "error"
                 ELSE /\ sResp' = "results"
                      /\ sResult' = IF variant = "oldapp" /\ sortBy = "time"
                                       /\ sMeta.exists /\ sMeta.data # <<>>
                                    THEN SortByTime(hits) ELSE hits
  /\ UNCHANGED <<variant, limitVars, stale, noteVars, files, diskVars, buildVars, query, sortBy, sIdx, sPaths, sMeta>>

\* The response is sent and the request is over.
Reply ==
  /\ spc = "reply"
  /\ spc' = "idle"
  /\ query' = Emb(1)
  /\ sortBy' = "similarity"
  /\ sIdx' = NoFile
  /\ sPaths' = <<>>
  /\ sMeta' = NoFile
  /\ sResp' = "none"
  /\ sIds' = <<>>
  /\ sResult' = <<>>
  /\ UNCHANGED <<variant, limitVars, stale, noteVars, files, diskVars, buildVars>>

\* The service is started again with another CLIP model: the vectors of the
\* persisted store no longer have the dimension of the provider's.
SwitchModel ==
  /\ faissFile.exists
  /\ ~stale
  /\ stale' = TRUE
  /\ UNCHANGED <<variant, limitVars, noteVars, files, diskVars, buildVars, searchVars>>

\* An answer that takes the folder of the index for the index.
check_index_OrNotes == faissFile.exists \/ log.kind # "missing"

\* POST /check_index: the answer's `indexed`.  app.py and old_app.py load_index
\* returns an index as soon as index.faiss exists; oldapp.py load_index also
\* has to open paths.pkl, and takes a missing metadata.pkl.
check_index ==
  IF variant = "oldapp" THEN faissFile.exists /\ pathsFile.exists
  ELSE faissFile.exists

\* --------------------------------------------------------- the comments
\* The paths that have an entry in a comments map.
Keys(data) == {data[i].path : i \in 1..Len(data)}

\* comments_data.get(image_path, [])
get(data, p) ==
  IF p \in Keys(data)
  THEN (CHOOSE e \in Range(data) : e.path = p).comments
  ELSE <<>>

\* A map that keeps only the newest comment of a path.
Appended_Overwrite(data, p, c) ==
  IF p \in Keys(data)
  THEN [i \in 1..Len(data) |->
          IF data[i].path = p THEN [data[i] EXCEPT !.comments = <<c>>] ELSE data[i]]
  ELSE Append(data, [path |-> p, comments |-> <<c>>])

\* if image_path not in comments_data: comments_data[image_path] = []
\* comments_data[image_path].append(comment_with_timestamp)
Appended(data, p, c) ==
  IF p \in Keys(data)
  THEN [i \in 1..Len(data) |->
          IF data[i].path = p THEN [data[i] EXCEPT !.comments = Append(@, c)] ELSE data[i]]
  ELSE Append(data, [path |-> p, comments |-> <<c>>])

\* A reader that trusts whatever the file holds.
load_comments_Strict(l) == IF l.kind = "missing" THEN [kind |-> "map", data |-> <<>>] ELSE l

\* load_comments: {} when the file is missing or json.load raises, else
\* whatever json.load returns, a dict or not.
load_comments(l) ==
  IF l.kind \in {"missing", "garbled"} THEN [kind |-> "map", data |-> <<>>] ELSE l

\* A check of the length before the white space is stripped.
TooLong_Raw(raw) == len(raw) > MAX_COMMENT_LENGTH

\* save_comment: len(comment) > config.MAX_COMMENT_LENGTH, after .strip()
TooLong(raw) == len(strip(raw)) > MAX_COMMENT_LENGTH

\* The answer to a commenter's request.
EndNote(c, how) ==
  /\ npc' = [npc EXCEPT ![c] = "reply"]
  /\ nResp' = [nResp EXCEPT ![c] = how]

\* POST /comments arrives: the checks of save_comment.
save_comment(c, p, raw) ==
  /\ npc[c] = "idle"
  /\ lres.op = "none"
  /\ Len(history) + Cardinality({d \in Commenters : npc[d] \in {"load", "save"}})
       < MaxComments
  /\ nPath' = [nPath EXCEPT ![c] = p]
  /\ nText' = [nText EXCEPT ![c] = raw]
  /\ IF len(strip(raw)) = 0 THEN EndNote(c, "missing")
     ELSE IF TooLong(raw) THEN EndNote(c, "too_long")
     ELSE /\ npc' = [npc EXCEPT ![c] = "load"]
          /\ UNCHANGED nResp
  /\ UNCHANGED <<variant, limitVars, stale, files, diskVars, buildVars, searchVars,
                 log, clock, nData, nOut, history, lres>>

\* add_image_comment: comments_data = load_comments(folder_path).  On JSON
\* that is not an object the item assignment raises, and save_comment answers
\* 500.
LoadNotes(c) ==
  /\ npc[c] = "load"
  /\ nData' = [nData EXCEPT ![c] = load_comments(log)]
  /\ IF load_comments(log).kind # "map" THEN EndNote(c, "error")
     ELSE /\ npc' = [npc EXCEPT ![c] = "save"]
          /\ UNCHANGED nResp
  /\ UNCHANGED <<variant, limitVars, stale, files, diskVars, buildVars, searchVars,
                 log, clock, nPath, nText, nOut, history, lres>>

\* add_image_comment: the stamped comment goes to the end of the path's list
\* and save_comments writes the whole map over the file.
SaveNotes(c) ==
  /\ npc[c] = "save"
  /\ log' = [kind |-> "map",
             data |-> Appended(nData[c].data, nPath[c], Stamped(clock, strip(nText[c])))]
  /\ history' = Append(history, [path |-> nPath[c], body |-> strip(nText[c]).body,
                                 at |-> clock])
  /\ npc' = [npc EXCEPT ![c] = "reload"]
  /\ UNCHANGED <<variant, limitVars, stale, files, diskVars, buildVars, searchVars,
                 clock, nPath, nText, nData, nResp, nOut, lres>>

\* save_comment: comments = get_image_comments(folder, image_path)
ReloadNotes(c) ==
  /\ npc[c] = "reload"
  /\ IF load_comments(log).kind # "map"
     THEN /\ EndNote(c, "error")
          /\ UNCHANGED nOut
     ELSE /\ EndNote(c, "success")
          /\ nOut' = [nOut EXCEPT ![c] = get(load_comments(log).data, nPath[c])]
  /\ UNCHANGED <<variant, limitVars, stale, files, diskVars, buildVars, searchVars,
                 log, clock, nPath, nText, nData, history, lres>>

\* The answer is sent and the request is over.
ReplyNotes(c) ==
  /\ npc[c] = "reply"
  /\ npc' = [npc EXCEPT ![c] = "idle"]
  /\ nPath' = [nPath EXCEPT ![c] = 0]
  /\ nText' = [nText EXCEPT ![c] = NoText]
  /\ nData' = [nData EXCEPT ![c] = NoLog]
  /\ nResp' = [nResp EXCEPT ![c] = "none"]
  /\ nOut' = [nOut EXCEPT ![c] = <<>>]
  /\ UNCHANGED <<variant, limitVars, stale, files, diskVars, buildVars, searchVars,
                 log, clock, history, lres>>

NoteStep(c) ==
  \/ LoadNotes(c)
  \/ SaveNotes(c)
  \/ ReloadNotes(c)
  \/ ReplyNotes(c)

\* A second passes.
Tick ==
  /\ clock < MaxClock
  /\ clock' = clock + 1
  /\ UNCHANGED <<variant, limitVars, stale, files, diskVars, buildVars, searchVars,
                 log, npc, nPath, nText, nData, nResp, nOut, history, lres>>

\* comments.json is damaged or replaced from outside the service.
SpoilLog(kind) ==
  /\ log.kind # kind
  /\ log' = [kind |-> kind, data |-> <<>>]
  /\ history' = <<>>
  /\ UNCHANGED <<variant, limitVars, stale, files, diskVars, buildVars, searchVars,
                 clock, npc, nPath, nText, nData, nResp, nOut, lres>>

\* GET /comments: get_image_comments inside try/except; .get on JSON that is
\* not an object raises and the answer is 500.
get_comments(p) ==
  /\ lres.op = "none"
  /\ lres' = IF load_comments(log).kind = "map"
             THEN [op |-> "list", path |-> p, resp |-> "ok",
                   out |-> get(load_comments(log).data, p)]
             ELSE [op |-> "list", path |-> p, resp |-> "error", out |-> <<>>]
  /\ UNCHANGED <<variant, limitVars, stale, files, diskVars, buildVars, searchVars,
                 log, clock, npc, nPath, nText, nData, nResp, nOut, history>>

\* Python's order of the strings "[timestamp] text": the timestamps have one
\* width, so they decide first; a text is a run of one letter, so the shorter
\* one is the smaller.
StrLess(a, b) == a.ts < b.ts \/ (a.ts = b.ts /\ a.text < b.text)

\* A sort that puts the oldest first.
RECURSIVE SortByLatest_OldestFirst(_)
SortByLatest_OldestFirst(rs) ==
  IF rs = <<>> THEN <<>>
  ELSE LET least == CHOOSE i \in 1..Len(rs) :
                      \A j \in 1..Len(rs) : ~StrLess(rs[j].latest, rs[i].latest)
       IN  <<rs[least]>> \o
           SortByLatest_OldestFirst(SubSeq(rs, 1, least - 1) \o SubSeq(rs, least + 1, Len(rs)))

\* results.sort(key=lambda x: x['latest_comment'], reverse=True): a stable
\* sort, the greatest string first, equal strings in the order they had.
RECURSIVE SortByLatest(_)
SortByLatest(rs) ==
  IF rs = <<>> THEN <<>>
  ELSE LET first == CHOOSE i \in 1..Len(rs) :
                      /\ \A j \in 1..Len(rs) : ~StrLess(rs[i].latest, rs[j].latest)
                      /\ \A j \in 1..(i - 1) : StrLess(rs[j].latest, rs[i].latest)
       IN  <<rs[first]>> \o
           SortByLatest(SubSeq(rs, 1, first - 1) \o SubSeq(rs, first + 1, Len(rs)))

\* The loop of get_commented_images: one result for each path of the map
\* that is in the catalog and whose image opens; an image that does not open
\* raises inside the try and is left out.
RECURSIVE Commented(_, _)
Commented(data, image_paths) ==
  IF data = <<>> THEN <<>>
  ELSE LET e == Head(data)
       IN  (IF e.path \in Range(image_paths) /\ Opens(e.path)
            THEN <<[path |-> e.path,
                    count |-> Len(e.comments),
                    latest |-> IF e.comments # <<>> THEN e.comments[Len(e.comments)]
                               ELSE [ts |-> -1, text |-> 0]]>>
            ELSE <<>>) \o Commented(Tail(data), image_paths)

\* POST /commented_images (oldapp.py)
get_commented_images ==
  /\ lres.op = "none"
  /\ lres' =
       IF ~(faissFile.exists /\ pathsFile.exists)
       THEN [op |-> "annotated", path |-> 0, resp |-> "not_indexed", out |-> <<>>]
       ELSE IF load_comments(log).kind # "map"
       THEN [op |-> "annotated", path |-> 0, resp |-> "error", out |-> <<>>]
       ELSE [op |-> "annotated", path |-> 0, resp |-> "ok",
             out |-> SortByLatest(Commented(load_comments(log).data, pathsFile.data))]
  /\ UNCHANGED <<variant, limitVars, stale, files, diskVars, buildVars, searchVars,
                 log, clock, npc, nPath, nText, nData, nResp, nOut, history>>

\* The answer of GET /comments or POST /commented_images is sent.
ViewReply ==
  /\ lres.op # "none"
  /\ lres' = NoView
  /\ UNCHANGED <<variant, limitVars, stale, files, diskVars, buildVars, searchVars,
                 log, clock, npc, nPath, nText, nData, nResp, nOut, history>>

\* ------------------------------------------------------- specifications
Quiet == spc = "idle" /\ \A b \in Builders : pc[b] = "idle"

BuildStep(b) ==
  \/ ReadIdx(b)
  \/ ReadPrev(b)
  \/ ScanEmbed(b)
  \/ CreateIndex(b, {})
  \/ WriteFaiss(b)
  \/ WritePaths(b)
  \/ WriteMeta(b)
  \/ Return(b)

SearchStep ==
  \/ LoadIdx
  \/ LoadPaths
  \/ LoadMeta
  \/ RunQuery
  \/ Reply

\* Requests served one at a time; a write of the index may fail.  A build reads
\* the folder in one step and a search in one step, so a change of the folder
\* during a request has the effect of one just before or just after it.
Next ==
  \/ Quiet /\ \E p \in Paths, kind \in {"ok", "corrupt"} : AddFile(p, kind)
  \/ Quiet /\ \E p \in Paths : RemoveFile(p)
  \/ Quiet /\ \E target \in Targets : index_folder("t1", target)
  \/ BuildStep("t1")
  \/ \E p \in Paths : CreateIndex("t1", {p})
  \/ FailWrite("t1")
  \/ Quiet /\ \E q \in QueryVectors, sb \in {"similarity", "time"} : search(q, sb)
  \/ SearchStep

Spec == Init /\ [][Next]_vars

\* Requests served concurrently, each in its own thread, on a folder that does
\* not change meanwhile; no write fails.
InitConc == Init /\ \A p \in Paths : files[p] # "corrupt"

NextConc ==
  \/ \E b \in Builders : index_folder(b, "dir")
  \/ \E b \in Builders : BuildStep(b)
  \/ \E q \in QueryVectors : search(q, "similarity")
  \/ SearchStep

SpecConc == InitConc /\ [][NextConc]_vars

\* One build and one search at a time, each in its own thread of the server;
\* the search's thread is always scheduled, the build may take any time.
NextBusy ==
  \/ index_folder("t1", "dir")
  \/ BuildStep("t1")
  \/ \E q \in QueryVectors : search(q, "similarity")
  \/ SearchStep

SpecBusy == InitConc /\ [][NextBusy]_vars /\ WF_vars(SearchStep)

\* A folder that gains files between the builds of one builder, with searches
\* running while the builder writes.
NextGrow ==
  \/ pc["t1"] = "idle" /\ \E p \in Paths : AddFile(p, "ok")
  \/ index_folder("t1", "dir")
  \/ BuildStep("t1")
  \/ \E q \in QueryVectors : search(q, "similarity")
  \/ SearchStep

SpecGrow == InitConc /\ [][NextGrow]_vars

\* Requests served one at a time on a folder whose index may be stale.
NextStale ==
  \/ Quiet /\ SwitchModel
  \/ Quiet /\ \E p \in Paths : AddFile(p, "ok")
  \/ Quiet /\ index_folder("t1", "dir")
  \/ BuildStep("t1")
  \/ Quiet /\ \E q \in QueryVectors : search(q, "similarity")
  \/ SearchStep

SpecStale == InitConc /\ [][NextStale]_vars

\* The comments of an oldapp.py folder, one request at a time.
NotesQuiet == lres.op = "none" /\ \A c \in Commenters : npc[c] = "idle"

InitNotes ==
  /\ Init
  /\ variant = "oldapp"
  /\ \A p \in Paths : files[p] = "absent"

NextNotes ==
  \/ NotesQuiet /\ \E p \in Paths, raw \in Texts : save_comment("c1", p, raw)
  \/ NoteStep("c1")
  \/ NotesQuiet /\ \E kind \in {"garbled", "other"} : SpoilLog(kind)
  \/ NotesQuiet /\ \E p \in Paths : get_comments(p)
  \/ ViewReply
  \/ Tick

SpecNotes == InitNotes /\ [][NextNotes]_vars

\* Two commenters whose requests run at the same time (the server handles
\* each request in a thread of its own).
NextNotesConc ==
  \/ \E c \in Commenters, p \in Paths, raw \in Texts : save_comment(c, p, raw)
  \/ \E c \in Commenters : NoteStep(c)
  \/ Tick

SpecNotesConc == InitNotes /\ [][NextNotesConc]_vars

\* An oldapp.py folder that is indexed, changed and commented, one request at
\* a time.
InitAlbum ==
  /\ Init
  /\ variant = "oldapp"
  /\ \A p \in Paths : files[p] # "corrupt"

\* The steps of oldapp.py's build: create_index, then save_index.
RebuildStep(b) ==
  \/ CreateIndex(b, {})
  \/ WriteFaiss(b)
  \/ WritePaths(b)
  \/ WriteMeta(b)
  \/ Return(b)

NextAlbum ==
  \/ Quiet /\ NotesQuiet /\ \E p \in Paths : RemoveFile(p)
  \/ Quiet /\ NotesQuiet /\ index_folder("t1", "dir")
  \/ RebuildStep("t1")
  \/ Quiet /\ NotesQuiet /\ \E p \in Paths, n \in {1, MAX_COMMENT_LENGTH} :
       save_comment("c1", p, [body |-> n, pad |-> 0])
  \/ NoteStep("c1")
  \/ Quiet /\ NotesQuiet /\ get_commented_images
  \/ ViewReply
  \/ Tick

SpecAlbum == InitAlbum /\ [][NextAlbum]_vars

\* oldapp.py search / search_by_image, the limit alone: the validation of the
\* request's limit and k = min(limit, len(image_paths)), on an Index of
\* nIndexed images.
LimitStep ==
  /\ kOut = -1
  /\ effLimit' = LimitOf(reqLimit, route)
  /\ kOut' = SearchK(nIndexed)
  /\ UNCHANGED <<variant, stale, files, noteVars, diskVars, buildVars, searchVars, reqLimit, route,
                 nIndexed>>

\* The next request: its limit, its route and the size of the Index it loads.
LimitRequest(raw, r, n) ==
  /\ kOut # -1
  /\ reqLimit' = raw
  /\ route' = r
  /\ nIndexed' = n
  /\ effLimit' = -1
  /\ kOut' = -1
  /\ UNCHANGED <<variant, stale, files, noteVars, diskVars, buildVars, searchVars>>

InitLimit ==
  /\ Init
  /\ variant = "oldapp"
  /\ \A p \in Paths : files[p] = "absent"

NextLimit ==
  \/ \E raw \in LimitInputs, r \in {"search", "search_by_image"}, n \in 0..MaxImages :
       LimitRequest(raw, r, n)
  \/ LimitStep

SpecLimit == InitLimit /\ [][NextLimit]_vars

\* ---------------------------------------------------------------- claims
Finished(b) == pc[b] = "end"
Completed(b) == pc[b] = "end" /\ resp[b] = "done"

\* The persisted vector store, catalog and (oldapp) metadata have one length.
PersistedLengthsEqual ==
  /\ Len(faissFile.data) = Len(pathsFile.data)
  /\ variant = "oldapp" => Len(metaFile.data) = Len(pathsFile.data)

\* Every vector stored at a position the catalog also has is the embedding of
\* the catalog's path at that position.
Aligned(vectors, paths) ==
  \A i \in 1..Min(Len(vectors), Len(paths)) : vectors[i] = Emb(paths[i])

\* One vector per catalog path, each path once.
OneVectorPerPath(vectors, paths) ==
  /\ Len(vectors) = Len(paths)
  /\ NoDup(paths)
  /\ Aligned(vectors, paths)

\* C1: after a build that completed (and was not a retry of a failed one) the
\* persisted Index has len(vectors) == len(paths) == len(metadata), also when
\* embedding or reading the metadata failed for some files.
C1_PersistedLengthsEqual ==
  \A b \in Builders : Completed(b) /\ ~isRetry[b] => PersistedLengthsEqual

\* C2: whenever no build is running, the i-th persisted vector is the embedding
\* of the i-th catalog path; and a search with the embedding of a path of the
\* catalog it loaded gets that path's position as the vector store's top-1.
C2_VectorsMatchPaths ==
  /\ (\A b \in Builders : pc[b] \in {"idle", "end"})
       => Aligned(faissFile.data, pathsFile.data)
  /\ (spc = "reply" /\ sResp \in {"results", "error"})
       => \A p \in Range(sPaths) :
            query = Emb(p) => /\ sIds # <<>>
                              /\ sIds[1] >= 0 /\ sIds[1] < Len(sPaths)
                              /\ sPaths[sIds[1] + 1] = p

\* C3: once two concurrent builds of the folder are both over, every catalog
\* path appears once and has exactly one vector.
C3_NoDuplicateEntries ==
  ((\A b \in Builders : pc[b] \in {"idle", "end"}) /\ faissFile.exists)
    => OneVectorPerPath(faissFile.data, pathsFile.data)

\* C4: at most one build of the folder is running at any time.
C4_SingleWriter ==
  Cardinality({b \in Builders : pc[b] \notin {"idle", "end"}}) <= 1

\* C5: the vector store and the catalog a search has loaded while builds run
\* have equal length and are aligned.
C5_SearchSeesWholeIndex ==
  spc = "query" => /\ Len(sIdx.data) = Len(sPaths)
                   /\ Aligned(sIdx.data, sPaths)

\* What the build of b set out to persist.
Intended(b) ==
  [faiss |-> idx[b], paths |-> FileOf(prev[b]),
   meta |-> IF variant = "oldapp" THEN FileOf(meta[b]) ELSE NoFile]

\* C6: after a build that failed while persisting, the persisted Index is
\* entirely the one from before the build or entirely the new one.
C6_PersistAtomic ==
  \A b \in Builders :
    (Finished(b) /\ resp[b] = "failed") => Disk = snapDisk[b] \/ Disk = Intended(b)

\* C7: a build that completes after the build before it failed while
\* persisting leaves one vector per catalog path, aligned, like a build that
\* never failed.
C7_RetrySafe ==
  \A b \in Builders :
    (Completed(b) /\ isRetry[b]) => OneVectorPerPath(faissFile.data, pathsFile.data)

\* C8: a search answers with results only from an Index whose vector store
\* and catalog were both present and of one length.
C8_CorruptIndexRejected ==
  (spc = "reply" /\ sResp = "results")
    => sIdx.exists /\ pathsFile.exists /\ Len(sIdx.data) = Len(sPaths)

IsNewInScanOrder(s, f, catalog) ==
  /\ Range(s) = {p \in Paths : f[p] # "absent" /\ p \notin Range(catalog)}
  /\ \A i, j \in 1..Len(s) : i < j => s[i] < s[j]

IsInt(raw) == raw.kind = "int"
InRange(v) == v >= MIN_RESULTS /\ v <= MAX_RESULTS

\* C12 as stated: a search whose limit is greater than the number N of indexed
\* images asks the vector store for all N (k == N), for every value of the
\* limit.
C12_LimitAboveCountReturnsAll ==
  (kOut # -1 /\ IsInt(reqLimit) /\ reqLimit.val > nIndexed) => kOut = nIndexed

\* C12 as amended: with a limit greater than N, k == N when the limit lies in
\* [MIN_RESULTS, MAX_RESULTS]; a limit out of that range is replaced by
\* DEFAULT_RESULTS first, so k == min(DEFAULT_RESULTS, N), which is less than N
\* when N > DEFAULT_RESULTS.  k is never greater than N and never negative.
C12_LimitAboveCount ==
  (kOut # -1 /\ IsInt(reqLimit) /\ reqLimit.val > nIndexed)
    => /\ kOut = IF InRange(reqLimit.val) THEN nIndexed
                 ELSE Min(DEFAULT_RESULTS, nIndexed)
       /\ kOut >= 0 /\ kOut <= nIndexed

\* A limit above MAX_RESULTS has been served on an Index of more than
\* DEFAULT_RESULTS images.
C12_Witness ==
  /\ kOut # -1 /\ IsInt(reqLimit)
  /\ reqLimit.val > MAX_RESULTS /\ reqLimit.val > nIndexed
  /\ nIndexed > DEFAULT_RESULTS
  /\ kOut = DEFAULT_RESULTS

\* C18: the effective limit is the requested one when that is an integer in
\* [MIN_RESULTS, MAX_RESULTS], and DEFAULT_RESULTS when it is below, above or no
\* integer; it always lies in [MIN_RESULTS, MAX_RESULTS].
C18_EffectiveLimit ==
  kOut # -1
    => /\ (IsInt(reqLimit) /\ InRange(reqLimit.val)) => effLimit = reqLimit.val
       /\ (IsInt(reqLimit) /\ ~InRange(reqLimit.val)) => effLimit = DEFAULT_RESULTS
       /\ reqLimit.kind \in {"text", "null"} => effLimit = DEFAULT_RESULTS
       /\ InRange(effLimit)

\* Limits below, in and above the range and one that is no number were served.
C18_Witness ==
  /\ kOut # -1
  /\ \/ IsInt(reqLimit) /\ reqLimit.val > MAX_RESULTS
     \/ IsInt(reqLimit) /\ reqLimit.val < MIN_RESULTS
     \/ reqLimit.kind = "text"

\* C13: a search on a folder with no persisted Index ends its load with the
\* outcome "not indexed" (never with results or an error), and neither the
\* load nor the reply changes a persisted file.
C13_NotIndexedOutcome ==
  [][/\ (spc = "read_idx" /\ Disk = NoDisk /\ spc' # spc)
        => (spc' = "reply" /\ sResp' = "not_indexed" /\ UNCHANGED diskVars)
     /\ (spc = "reply" /\ sResp = "not_indexed" /\ spc' # spc)
        => (spc' = "idle" /\ UNCHANGED diskVars)]_vars

\* A search on a folder with no persisted Index has its answer.
C13_Witness ==
  spc = "reply" /\ sResp = "not_indexed" /\ Disk = NoDisk

\* C14: a build on a folder that holds no supported image file ends with the
\* outcome "no images found" and leaves the persisted files as they were: no
\* Index is created and an existing one is not touched.
C14_NoImagesNoChange ==
  \A b \in Builders :
    (Finished(b) /\ asked[b] = "dir" /\ ~dirty[b] /\ _imgs(files) = <<>>)
      => resp[b] = "no_images" /\ Disk = snapDisk[b]

\* C15: a build request that names a missing path or a path that is no
\* directory ends with the outcome "invalid folder", and no persisted file has
\* changed.
C15_InvalidFolderRejected ==
  \A b \in Builders :
    (Finished(b) /\ asked[b] # "dir")
      => resp[b] = "invalid_folder" /\ Disk = snapDisk[b]

\* The new files of the build of b: scanned and not in the catalog it found
\* (oldapp.py starts every build from an empty catalog).
NewFiles(b) ==
  {p \in Paths : /\ files[p] # "absent"
                 /\ variant \in Incremental => p \notin Range(snapDisk[b].paths.data)}

\* C16: a build with a new file that cannot be embedded, which does not fail
\* while persisting, completes; the file is in the persisted catalog no more
\* than before and every other new file is in it.
C16_EmbedFailureSkipsFile ==
  \A b \in Builders :
    (/\ Finished(b) /\ asked[b] = "dir" /\ ~dirty[b] /\ resp[b] # "failed"
     /\ \E p \in NewFiles(b) : files[p] = "corrupt"
     /\ \E p \in NewFiles(b) : files[p] = "ok")
      => /\ resp[b] = "done"
         /\ \A p \in NewFiles(b) :
              IF files[p] = "ok" THEN p \in Range(pathsFile.data)
              ELSE p \notin Range(pathsFile.data)

\* A valid persisted Index: both files present and of one length.
ValidIndex ==
  /\ faissFile.exists /\ pathsFile.exists
  /\ Len(faissFile.data) = Len(pathsFile.data)

\* C17: at every moment, also while a build has written only some of its
\* files, check_index answers indexed exactly when a valid persisted Index
\* exists.
C17_IsIndexedIffValid ==
  check_index <=> ValidIndex

\* How often r occurs in the sequence s.
Count(r, s) == Cardinality({i \in 1..Len(s) : s[i] = r})

IsPermutation(s, t) ==
  /\ Len(s) = Len(t)
  /\ \A i \in 1..Len(s) : Count(s[i], s) = Count(s[i], t)

\* C19: the positions a search selects are the vector store's top-k whatever
\* the sort order asked for, and its results are a permutation of those hits
\* in similarity order; with sort by time and metadata they are ordered
\* by mtime descending, otherwise they are the hits in similarity order.
C19_TimeSortIsPermutation ==
  (spc = "reply" /\ sResp = "results" /\ sIds # <<>>)
    => LET hits == Hits(sIds, sPaths, sMeta)
       IN  /\ sIds = TopK(sIdx.data, query, SearchK(Len(sPaths)), {})
           /\ IsPermutation(sResult, hits)
           /\ IF variant = "oldapp" /\ sortBy = "time" /\ sMeta.exists /\ sMeta.data # <<>>
              THEN \A i, j \in 1..Len(sResult) :
                     i < j => sResult[i].mtime >= sResult[j].mtime
              ELSE sResult = hits

\* A search sorted by time has returned two results in another order than the
\* similarity order.
C19_Witness ==
  /\ spc = "reply" /\ sResp = "results" /\ sortBy = "time"
  /\ Len(sResult) >= 2
  /\ sResult # Hits(sIds, sPaths, sMeta)

\* C20: a search request that has arrived gets its answer whatever the build
\* does meanwhile, also when the build never goes on.
C20_SearchNotBlocked ==
  (spc # "idle") ~> (spc = "idle")

\* A search has its answer while a build is between its steps.
C20_Witness ==
  /\ spc = "reply"
  /\ pc["t1"] \in {"scan", "create", "write_faiss", "write_paths", "write_meta"}

\* C27: a search that loaded a vector store of zero vectors answers with an
\* empty result list, never with an error.
C27_EmptyStoreEmptyResult ==
  (spc = "reply" /\ sIdx.exists /\ sIdx.data = <<>>)
    => sResp = "results" /\ sResult = <<>>

\* The hits of the search in progress: the positions the vector store returned
\* that lie in the catalog.
ValidHits == {n \in 1..Len(sIds) : sIds[n] >= 0 /\ sIds[n] < Len(sPaths)}

\* C28: a search with a hit whose file is gone from the folder still answers
\* with results, and every hit whose file is there is among them.
C28_MissingFileNoCrash ==
  (/\ spc = "reply" /\ sResp \in {"results", "error"}
   /\ \E n \in ValidHits : files[sPaths[sIds[n] + 1]] = "absent")
    => /\ sResp = "results"
       /\ \A n \in ValidHits :
            files[sPaths[sIds[n] + 1]] = "ok"
              => \E i \in 1..Len(sResult) : sResult[i].path = sPaths[sIds[n] + 1]

\* C26: every result of a search is the catalog entry at a position the vector
\* store returned and that lies in the catalog; no other position is mapped to
\* a catalog entry.
C26_OnlyResolvedPositions ==
  (spc = "reply" /\ sResp = "results")
    => \A i \in 1..Len(sResult) :
         \E n \in ValidHits : sResult[i].path = sPaths[sIds[n] + 1]

Said(p) ==
  LET RECURSIVE of(_)
      of(h) == IF h = <<>> THEN <<>>
               ELSE (IF Head(h).path = p
                     THEN <<[ts |-> Head(h).at, text |-> Head(h).body]>>
                     ELSE <<>>) \o of(Tail(h))
  IN  of(history)

\* What a request was answered when it is refused for its text.
Refusals == {"missing", "too_long"}

\* The append of commenter c added one entry to its path and nothing else.
AddedOne(c) ==
  /\ log.kind = "map"
  /\ LET before == get(nData[c].data, nPath[c])
         after == get(log.data, nPath[c])
     IN  /\ Len(after) = Len(before) + 1
         /\ SubSeq(after, 1, Len(before)) = before
         /\ after[Len(after)].text = strip(nText[c]).body
  /\ \A q \in Paths \ {nPath[c]} : get(log.data, q) = get(nData[c].data, q)

\* C21 (as stated): a comment longer than the maximum is answered "too long",
\* and every other comment is appended.
C21_CommentTooLong ==
  \A c \in Commenters :
    npc[c] = "reply" =>
      /\ len(nText[c]) > MAX_COMMENT_LENGTH <=> nResp[c] = "too_long"
      /\ (len(nText[c]) <= MAX_COMMENT_LENGTH /\ nResp[c] # "error")
           => nResp[c] = "success"

\* C21 (amended): the length that counts is the one after the surrounding white
\* space is stripped.  A comment that is then longer than the maximum is
\* answered "too long", one that is then empty is answered "missing", and
\* neither changes the log; any other comment adds exactly one entry to its
\* path's sequence.
C21_StrippedLength ==
  /\ [](\A c \in Commenters :
          /\ npc[c] = "reply" =>
               /\ nResp[c] = "too_long" <=> len(strip(nText[c])) > MAX_COMMENT_LENGTH
               /\ nResp[c] = "missing" <=> len(strip(nText[c])) = 0
          /\ (npc[c] = "reload" \/ (npc[c] = "reply" /\ nResp[c] = "success"))
               => AddedOne(c))
  /\ [][\A c \in Commenters :
          (npc[c] = "idle" /\ nResp'[c] \in Refusals) => log' = log]_vars

C21_Witness ==
  /\ npc["c1"] = "reply"
  /\ nResp["c1"] = "too_long"
  /\ log.kind = "map"
  /\ log.data # <<>>

\* C22: the comments GET /comments returns for a path, and the comments the
\* answer to an append carries, are the comments appended to that path, in
\* the order they were appended, each with the time it was appended at; for a
\* path with no comment they are the empty sequence.
C22_ListInInsertionOrder ==
  /\ (lres.op = "list" /\ lres.resp = "ok") => lres.out = Said(lres.path)
  /\ \A c \in Commenters :
       (npc[c] = "reply" /\ nResp[c] = "success") => nOut[c] = Said(nPath[c])

C22_Witness ==
  /\ lres.op = "list"
  /\ lres.resp = "ok"
  /\ Len(lres.out) = 2
  /\ lres.out[1] # lres.out[2]

\* C24: GET /comments on a folder whose comments.json is missing or is not a
\* comments map answers with the empty sequence and no error.
C24_BadLogReadsEmpty ==
  (lres.op = "list" /\ log.kind # "map") => (lres.resp = "ok" /\ lres.out = <<>>)

\* C30: when two appends that ran at the same time have both been answered
\* with success, the log holds every comment appended so far.
C30_NoLostComment ==
  (\A c \in Commenters : npc[c] = "reply" /\ nResp[c] = "success")
    => \A p \in Paths : Len(get(log.data, p)) = Len(Said(p))

\* The paths with comments that POST /commented_images is to list.
InCatalog == {p \in Keys(log.data) : p \in Range(pathsFile.data)}

\* Every entry of the answer has the count and the last comment of its path,
\* and the entries come newest first.
CountLatestOrder ==
  /\ \A i \in 1..Len(lres.out) :
       LET cs == get(log.data, lres.out[i].path)
       IN  /\ lres.out[i].count = Len(cs)
           /\ cs # <<>>
           /\ lres.out[i].latest = cs[Len(cs)]
  /\ \A i, j \in 1..Len(lres.out) :
       i < j => /\ lres.out[i].latest.ts >= lres.out[j].latest.ts
                /\ lres.out[i].path # lres.out[j].path

\* C23 (as stated): the answer has one entry for exactly the commented paths
\* of the catalog.
C23_AnnotatedInCatalog ==
  (lres.op = "annotated" /\ lres.resp = "ok")
    => /\ {lres.out[i].path : i \in 1..Len(lres.out)} = InCatalog
       /\ CountLatestOrder

\* C23 (amended): the answer has one entry for exactly the commented paths
\* of the catalog whose image file can still be opened, each with the number
\* of comments of the path and its last comment, newest last comment first.
C23_AnnotatedAndReadable ==
  (lres.op = "annotated" /\ lres.resp = "ok")
    => /\ {lres.out[i].path : i \in 1..Len(lres.out)} = {p \in InCatalog : files[p] = "ok"}
       /\ CountLatestOrder

C23_Witness ==
  /\ lres.op = "annotated"
  /\ lres.resp = "ok"
  /\ Len(lres.out) = 2
  /\ lres.out[1].latest.ts > lres.out[2].latest.ts

\* C25: a step that changes the comments log changes neither the persisted
\* index nor the answer of check_index, and a step that changes the persisted
\* index leaves the comments log as it is.
C25_LogAndIndexApart ==
  [][/\ log' # log => (UNCHANGED diskVars /\ check_index' = check_index)
     /\ diskVars' # diskVars => log' = log]_vars

C25_Witness ==
  /\ Finished("t1")
  /\ resp["t1"] = "done"
  /\ \E p \in Keys(log.data) : p \notin Range(pathsFile.data)

====
